---- MODULE Spec2Model ----
(***************************************************************************)
(* DBI backend (dbibackend.c): the host side of the DBI installer's USB    *)
(* protocol.  The model follows poll_commands and the three command        *)
(* handlers transport operation by transport operation: every usb_read and *)
(* usb_write of the code is one step, and `io` records the operations of   *)
(* the command being served.                                               *)
(*                                                                         *)
(* Strings and buffers are sequences of byte values (0..255).  Integers on *)
(* the wire are 32/64-bit little-endian (the code stores them in the       *)
(* host's native order; x86-64/AArch64 hosts are little-endian).           *)
(* File contents are not materialised: a chunk of file data is named by    *)
(* the file's path and the offset and length of the chunk.                 *)
(***************************************************************************)
EXTENDS Integers, Sequences, FiniteSets, TLC

VARIABLES
    pc,        \* position of the single thread inside poll_commands / a handler
    cache,     \* TitleCache: the sequence entries[0..count-1]
    disk,      \* which of the directory trees Disks the filesystem holds now
    io,        \* transport operations of the command being served, in order
    nsp_list,  \* process_list_command's list buffer (a C string)
    fr,        \* process_file_range_command's locals
    usb,       \* the UsbContext of usb_init and the libusb resources behind it
    device     \* the console as the host's USB stack sees it

vars == <<pc, cache, disk, io, nsp_list, fr, usb, device>>

(***************************************************************************)
(* Program constants                                                       *)
(***************************************************************************)
BUFFER_SEGMENT_DATA_SIZE == 1048576
MAX_PATH_LEN == 4096
MAX_TITLES == 1024
DISPLAY_NAME_MAX == 255
HEADER_SIZE == 16

CMD_EXIT == 0
CMD_LIST_DEPRECATED == 1
CMD_FILE_RANGE == 2
CMD_LIST == 3

CMD_TYPE_REQUEST == 0
CMD_TYPE_RESPONSE == 1
CMD_TYPE_ACK == 2

\* "DBI0"
Magic == <<68, 66, 73, 48>>

(***************************************************************************)
(* Bounds of the model                                                     *)
(***************************************************************************)
\* number of files in the directory of the largest tree is MAX_TITLES + ExtraTitles
ExtraTitles == 1
\* number of different values an indeterminate 32-bit word may take
UndefWords == 2

(***************************************************************************)
(* Bytes, C strings, little-endian integers                                *)
(***************************************************************************)
Min(a, b) == IF a <= b THEN a ELSE b

\* TLC's integers are 32-bit: the model's inputs keep every value below 2^31,
\* and 2^32 is written 65536 * 65536 where a 64-bit value is put together.
U32LE(x) ==
    << x % 256, (x \div 256) % 256, (x \div 65536) % 256, (x \div 16777216) % 256 >>

U64LE(x) == U32LE(x) \o U32LE((x \div 65536) \div 65536)

\* *(uint32_t*)(buf + off), for off + 4 <= Len(buf)
U32At(buf, off) ==
    buf[off + 1] + 256 * buf[off + 2] + 65536 * buf[off + 3] + 16777216 * buf[off + 4]

\* *(uint64_t*)(buf + off), for off + 8 <= Len(buf)
U64At(buf, off) == U32At(buf, off) + 65536 * (65536 * U32At(buf, off + 4))

\* A C string is modelled by the bytes before its terminator, so strlen is Len
\* and strcat is \o.  NulFrom finds the terminator in a raw buffer: the index
\* (1-based) of the first NUL of buf at or after index from, 0 when there is none.
RECURSIVE NulFrom(_, _)
NulFrom(buf, from) ==
    IF from > Len(buf) THEN 0
    ELSE IF buf[from] = 0 THEN from
    ELSE NulFrom(buf, from + 1)

\* strncpy(dst, src, n) into a zeroed or afterwards terminated field: the first
\* n bytes of the string src
StrNCpy(src, n) == SubSeq(src, 1, Min(Len(src), n))

ToLower(c) == IF c >= 65 /\ c <= 90 THEN c + 32 ELSE c

\* strcasecmp(a, b) == 0
StrCaseEq(a, b) ==
    /\ Len(a) = Len(b)
    /\ \A i \in 1..Len(a) : ToLower(a[i]) = ToLower(b[i])

(***************************************************************************)
(* The filesystem: a directory is the sequence of its entries in readdir   *)
(* order; an entry is a directory, a regular file of some size, or         *)
(* something else (a socket, a dangling link).                             *)
(***************************************************************************)
Reg(name, size) == [name |-> name, kind |-> "reg", size |-> size, entries |-> <<>>]
Dir(name, entries) == [name |-> name, kind |-> "dir", size |-> 0, entries |-> entries]
Other(name) == [name |-> name, kind |-> "other", size |-> 0, entries |-> <<>>]

Dot == <<46>>
DotDot == <<46, 46>>
Slash == <<47>>

\* file names
a_nsp == <<97, 46, 110, 115, 112>>                     \* "a.nsp"
b_xci == <<98, 46, 120, 99, 105>>                      \* "b.xci"
c_nsp == <<99, 46, 110, 115, 112>>                     \* "c.nsp"
d_NSZ == <<100, 46, 78, 83, 90>>                       \* "d.NSZ"
x_nsp == <<120, 46, 110, 115, 112>>                    \* "x.nsp"
nsp == <<110, 115, 112>>                               \* "nsp", too short for an extension
notes_txt == <<110, 111, 116, 101, 115, 46, 116, 120, 116>>  \* "notes.txt"
e_nsp_bak == <<101, 46, 110, 115, 112, 46, 98, 97, 107>>     \* "e.nsp.bak"
sub == <<115, 117, 98>>                                \* "sub"
f_xci == <<102, 46, 120, 99, 105>>                     \* "f.xci", the name of a socket
work_dir == <<116>>                                    \* "t", the titles directory

\* "0000.nsp" .. "9999.nsp"
NumName(i) ==
    << 48 + ((i \div 1000) % 10), 48 + ((i \div 100) % 10), 48 + ((i \div 10) % 10),
       48 + (i % 10), 46, 110, 115, 112 >>

ASize == 3 * BUFFER_SEGMENT_DATA_SIZE + 10
BSize == BUFFER_SEGMENT_DATA_SIZE + 10

\* The current directory of the process in each of the trees.  work_dir is
\* the directory "t" of it; "c.nsp" lies beside it.
DiskEmpty == << Dir(work_dir, << Dir(Dot, <<>>), Dir(DotDot, <<>>) >>), Reg(c_nsp, 10) >>

DiskOne ==
    << Dir(work_dir,
           << Dir(Dot, <<>>), Dir(DotDot, <<>>), Reg(nsp, 3), Other(f_xci),
              Dir(sub, << Reg(e_nsp_bak, 3), Reg(d_NSZ, 20) >>) >>),
       Reg(c_nsp, 10) >>

DiskTwo ==
    << Dir(work_dir,
           << Dir(Dot, <<>>), Reg(a_nsp, ASize), Reg(notes_txt, 3), Dir(DotDot, <<>>),
              Reg(b_xci, BSize) >>),
       Reg(c_nsp, 10) >>

\* More titles than the catalog holds: half a catalog of them in the titles
\* directory, the others in a directory below it, and one more after that.
DiskFull ==
    << Dir(work_dir,
           [i \in 1..(MAX_TITLES \div 2) |-> Reg(NumName(i), 1)]
             \o << Dir(sub, [i \in 1..(MAX_TITLES \div 2 + ExtraTitles) |->
                                Reg(NumName(MAX_TITLES \div 2 + i), 1)]) >>
             \o << Reg(a_nsp, ASize) >>),
       Reg(c_nsp, 10) >>

Disks == << DiskEmpty, DiskOne, DiskTwo, DiskFull >>

\* the longest name readdir returns: d_name holds NAME_MAX bytes and a NUL
NAME_MAX == 255

\* a title name of len bytes (len >= 8): four digits, padding of 'a', ".nsp"
LongName(i, len) ==
    [k \in 1..len |-> IF k <= 4 THEN NumName(i)[k]
                      ELSE IF k > len - 4 THEN NumName(i)[k - (len - 8)]
                      ELSE 97]

\* a titles directory of n titles whose names are len bytes long
LongDisk(n, len) == << Dir(work_dir, [i \in 1..n |-> Reg(LongName(i, len), 1)]) >>

\* Trees of long names: a full catalog of the longest names, and the two
\* nearest to it (names one byte shorter, one title fewer)
LongDisks ==
    << LongDisk(MAX_TITLES, NAME_MAX),
       LongDisk(MAX_TITLES, NAME_MAX - 1),
       LongDisk(MAX_TITLES - 1, NAME_MAX) >>

\* the current directory of the process when the tree is number d
Tree(d) == IF d <= Len(Disks) THEN Disks[d] ELSE LongDisks[d - Len(Disks)]

\* the entry called name of a directory, or a record of kind "none"
NoEntry == [name |-> <<>>, kind |-> "none", size |-> 0, entries |-> <<>>]

EntryOf(entries, name) ==
    IF \E i \in 1..Len(entries) : entries[i].name = name
    THEN entries[CHOOSE i \in 1..Len(entries) : entries[i].name = name]
    ELSE NoEntry

\* index of the first '/' of path, 0 when there is none
RECURSIVE SlashIn(_, _)
SlashIn(path, from) ==
    IF from > Len(path) THEN 0
    ELSE IF path[from] = 47 THEN from
    ELSE SlashIn(path, from + 1)

\* what a relative path names, looked up from the directory `entries`
RECURSIVE Lookup(_, _)
Lookup(entries, path) ==
    LET s == SlashIn(path, 1) IN
    IF s = 0 THEN EntryOf(entries, path)
    ELSE LET d == EntryOf(entries, SubSeq(path, 1, s - 1)) IN
         IF d.kind = "dir" THEN Lookup(d.entries, SubSeq(path, s + 1, Len(path)))
         ELSE NoEntry

(***************************************************************************)
(* Title catalog                                                           *)
(***************************************************************************)
ext_nsp == <<46, 110, 115, 112>>   \* ".nsp"
ext_xci == <<46, 120, 99, 105>>    \* ".xci"
ext_nsz == <<46, 110, 115, 122>>   \* ".nsz"

has_valid_extension(filename) ==
    LET len == Len(filename) IN
    IF len < 4 THEN FALSE
    ELSE LET ext == SubSeq(filename, len - 3, len) IN
         \/ StrCaseEq(ext, ext_nsp)
         \/ StrCaseEq(ext, ext_xci)
         \/ StrCaseEq(ext, ext_nsz)

\* snprintf(full_path, sizeof(full_path), "%s/%s", path, name)
JoinPath(path, name) == StrNCpy(path \o Slash \o name, MAX_PATH_LEN - 1)

TitleEntry(name, full_path) ==
    [display_name |-> StrNCpy(name, DISPLAY_NAME_MAX),
     full_path |-> StrNCpy(full_path, MAX_PATH_LEN - 1)]


\* a loop that stops one entry late
ScanCond_off_by_one(c) == Len(c) <= MAX_TITLES

\* the second half of the while condition: cache->count < MAX_TITLES
ScanCond(c) == Len(c) < MAX_TITLES

\* scan_directory's while loop over the entries lo..hi of the directory at path,
\* entered with the cache c; ScanEntry is the body of one pass of it.  The loop
\* over lo..hi is the loop over lo..mid followed by the loop over mid+1..hi,
\* which keeps the evaluation shallow for a directory of a thousand entries.
RECURSIVE ScanRange(_, _, _, _, _)
RECURSIVE ScanEntry(_, _, _)
ScanEntry(path, e, c) ==
    LET full_path == JoinPath(path, e.name) IN
    IF e.name = Dot \/ e.name = DotDot THEN c
    ELSE IF e.kind = "dir" THEN ScanRange(full_path, e.entries, 1, Len(e.entries), c)
    ELSE IF e.kind = "reg" /\ has_valid_extension(e.name)
    THEN Append(c, TitleEntry(e.name, full_path))
    ELSE c

ScanRange(path, entries, lo, hi, c) ==
    IF lo > hi \/ ~ScanCond(c) THEN c
    ELSE IF lo = hi THEN ScanEntry(path, entries[lo], c)
    ELSE LET mid == (lo + hi) \div 2 IN
         ScanRange(path, entries, mid + 1, hi, ScanRange(path, entries, lo, mid, c))

\* scan_directory(path, cache) from the current directory `root`
ScanDirectory(root, path, c) ==
    LET d == Lookup(root, path) IN
    IF d.kind # "dir" THEN c
    ELSE ScanRange(path, d.entries, 1, Len(d.entries), c)

\* a lookup that hands back the name of the entry it found
find_title_path_display(c, display_name) == display_name

\* find_title_path: the full_path of the first entry called display_name,
\* display_name itself when there is none
find_title_path(c, display_name) ==
    IF \E i \in 1..Len(c) : c[i].display_name = display_name
    THEN c[CHOOSE i \in 1..Len(c) :
              /\ c[i].display_name = display_name
              /\ \A j \in 1..(i - 1) : c[j].display_name # display_name].full_path
    ELSE display_name

(***************************************************************************)
(* Command codec                                                           *)
(***************************************************************************)
\* memcpy(h, "DBI0", 4); *(uint32_t*)(h + 4) = type; ... (h + 8) = id; ... (h + 12) = len
HeaderBytes(type, id, len) == Magic \o U32LE(type) \o U32LE(id) \o U32LE(len)

ExitResponse == HeaderBytes(CMD_TYPE_RESPONSE, CMD_EXIT, 0)
\* a list response that counts the terminator too
ListResponse_with_nul(list_len) == HeaderBytes(CMD_TYPE_RESPONSE, CMD_LIST, list_len + 1)

\* an acknowledgement that does not echo the declared length
FileRangeAck_zero(data_size) == HeaderBytes(CMD_TYPE_ACK, CMD_FILE_RANGE, 0)

ListResponse(list_len) == HeaderBytes(CMD_TYPE_RESPONSE, CMD_LIST, list_len)
FileRangeAck(data_size) == HeaderBytes(CMD_TYPE_ACK, CMD_FILE_RANGE, data_size)
FileRangeResponse(range_size) == HeaderBytes(CMD_TYPE_RESPONSE, CMD_FILE_RANGE, range_size)

\* a comparison of the first three bytes only
HasMagic_prefix3(buf) == SubSeq(buf, 1, 3) = SubSeq(Magic, 1, 3)

\* a check that also wants the type to be Request
HasMagic_request_only(buf) == SubSeq(buf, 1, 4) = Magic /\ U32At(buf, 4) = 0

\* the fields poll_commands takes from a 16-byte buffer
HasMagic(buf) == SubSeq(buf, 1, 4) = Magic
CmdType(buf) == U32At(buf, 4)
CmdId(buf) == U32At(buf, 8)
DataSize(buf) == U32At(buf, 12)

(***************************************************************************)
(* Transport adapter: the record of one libusb_bulk_transfer.  ret is what *)
(* usb_read / usb_write returns: the number of bytes transferred, or a     *)
(* negative libusb error.  A chunk of file data is named, not spelled out: *)
(* path and off say which bytes of which file the size bytes are.          *)
(***************************************************************************)
LIBUSB_ERROR == -1

usb_read(size, ret, data) ==
    [op |-> "read", size |-> size, ret |-> ret, data |-> data, path |-> <<>>, off |-> 0]

usb_write(data, size, ok) ==
    [op |-> "write", size |-> size, ret |-> IF ok THEN size ELSE LIBUSB_ERROR,
     data |-> data, path |-> <<>>, off |-> 0]

usb_write_chunk(path, off, size, ok) ==
    [op |-> "write", size |-> size, ret |-> IF ok THEN size ELSE LIBUSB_ERROR,
     data |-> <<>>, path |-> path, off |-> off]

(***************************************************************************)
(* What the peer may send                                                  *)
(***************************************************************************)
\* command ids no CommandID names
UnknownIds == {4, 255}

CmdTypes == {CMD_TYPE_REQUEST, CMD_TYPE_RESPONSE, CMD_TYPE_ACK}
CmdIds == {CMD_EXIT, CMD_LIST_DEPRECATED, CMD_FILE_RANGE, CMD_LIST} \cup UnknownIds

\* a FileRangeRequest as the peer lays it out, with and without a terminator
Request(range_size, range_offset, name) ==
    U32LE(range_size) \o U64LE(range_offset) \o U32LE(Len(name)) \o name

RequestZ(range_size, range_offset, name) == Request(range_size, range_offset, name) \o <<0>>

Unit == BUFFER_SEGMENT_DATA_SIZE

PeerPayloads ==
    { RequestZ(0, 0, a_nsp),
      RequestZ(5, 7, a_nsp),
      RequestZ(Unit, 7, a_nsp),
      RequestZ(2 * Unit, 0, a_nsp),
      RequestZ(2 * Unit + 5, 7, a_nsp),
      RequestZ(Unit + 5, 7, b_xci),       \* b.xci ends 2 bytes before the range does
      RequestZ(3, ASize + 1, a_nsp),      \* a range that begins beyond the end
      RequestZ(3, 0, x_nsp),              \* no such file
      RequestZ(0, 0, x_nsp),
      RequestZ(4, 2, c_nsp),              \* never in the catalog, but in the current directory
      Request(5, 7, a_nsp) }

\* the length of a terminated request for a five-letter name
FullSize == Len(RequestZ(0, 0, a_nsp))

\* a payload_length the peer declares without sending that much, and what it
\* sends then
ShortSizes == {0, 8}
ShortPayload == RequestZ(5, 7, a_nsp)

DataSizes == {Len(p) : p \in PeerPayloads} \cup ShortSizes

BadMagic == <<68, 66, 73, 49>> \o U32LE(CMD_TYPE_REQUEST) \o U32LE(CMD_LIST) \o U32LE(0)

\* the 16-byte buffers a header read may return
InHeaders ==
    { HeaderBytes(t, id, 0) : t \in CmdTypes, id \in CmdIds \ {CMD_FILE_RANGE} }
      \cup { HeaderBytes(CMD_TYPE_REQUEST, CMD_FILE_RANGE, n) : n \in DataSizes }
      \cup { HeaderBytes(t, CMD_FILE_RANGE, FullSize) : t \in CmdTypes }
      \cup { BadMagic }

\* the values an indeterminate word (uninitialised or out of bounds) may hold
UndefU32 == 0..(UndefWords - 1)
\* the bytes an out-of-bounds string read may find before a NUL
UndefTails == { <<>>, c_nsp }

(***************************************************************************)
(* The transport session: the UsbContext and what libusb holds for it.     *)
(*   ctx        the malloc'ed UsbContext                                   *)
(*   lib        the libusb context of libusb_init                          *)
(*   dev_handle the handle of libusb_open_device_with_vid_pid              *)
(*   iface      the claim of interface 0                                   *)
(*   config     the descriptor of libusb_get_active_config_descriptor      *)
(*   endpoints  the endpoint addresses read through config                 *)
(*   failed     the step of usb_init that failed in this attempt           *)
(***************************************************************************)
LIBUSB_ENDPOINT_IN == 128
EP_IN == 129      \* 0x81, a bulk IN endpoint
EP_OUT == 1       \* 0x01, a bulk OUT endpoint

\* the console is not attached, is held by another program, or shows an
\* interface with these endpoints
DeviceStates == {"absent", "busy", "in_only", "out_only", "ready"}

Endpoints(d) ==
    IF d = "in_only" THEN <<EP_IN>>
    ELSE IF d = "out_only" THEN <<EP_OUT>>
    ELSE IF d = "ready" THEN <<EP_OUT, EP_IN>>
    ELSE <<>>

\* what a read through an indeterminate config pointer may find
UndefEndpoints == { <<>>, <<EP_IN>>, <<EP_OUT, EP_IN>> }

NoUsb ==
    [ctx |-> "none", lib |-> "none", dev_handle |-> "none", iface |-> "none",
     config |-> "none", endpoints |-> <<>>, ep_in |-> 0, ep_out |-> 0, failed |-> "none"]

\* the for loop over iface_desc->endpoint[0 .. bNumEndpoints-1]
RECURSIVE EndpointScan(_, _, _)
EndpointScan(eps, i, u) ==
    IF i > Len(eps) THEN u
    ELSE LET ep_addr == eps[i] IN
         EndpointScan(eps, i + 1,
                      IF (ep_addr \div LIBUSB_ENDPOINT_IN) % 2 = 1
                      THEN [u EXCEPT !.ep_in = ep_addr]
                      ELSE [u EXCEPT !.ep_out = ep_addr])

\* the context usb_init returns for a console that is ready
OpenedUsb ==
    [NoUsb EXCEPT !.ctx = "allocated", !.lib = "init", !.dev_handle = "open",
                  !.iface = "claimed", !.config = "freed",
                  !.ep_in = EP_IN, !.ep_out = EP_OUT]

(***************************************************************************)
(* State                                                                   *)
(***************************************************************************)
NoList == <<>>
NoFileRange ==
    [data_size |-> 0, got |-> <<>>, range_size |-> 0, range_offset |-> 0,
     nsp_name_len |-> 0, nsp_name |-> <<>>, actual_path |-> <<>>,
     f |-> "none", file_len |-> 0, file_pos |-> 0, buffer |-> "none",
     curr_off |-> 0, end_off |-> 0, read_size |-> 0]

Init ==
    /\ pc = "await"
    /\ cache = <<>>
    /\ disk \in 1..Len(Disks)
    /\ io = <<>>
    /\ nsp_list = NoList
    /\ fr = NoFileRange
    /\ usb = OpenedUsb
    /\ device = "ready"

\* main at the call of connect_to_switch, the arguments checked
MainInit ==
    /\ pc = "connect"
    /\ cache = <<>>
    /\ disk \in 1..Len(Disks)
    /\ io = <<>>
    /\ nsp_list = NoList
    /\ fr = NoFileRange
    /\ usb = NoUsb
    /\ device \in DeviceStates

(***************************************************************************)
(* connect_to_switch and usb_init, one libusb call a step.  A step that    *)
(* fails releases what usb_init holds and returns NULL: pc "sleep".        *)
(***************************************************************************)
\* ctx = malloc(sizeof(UsbContext))
usb_init_alloc ==
    /\ pc = "connect"
    /\ \/ usb' = [NoUsb EXCEPT !.ctx = "allocated"] /\ pc' = "usb_libinit"
       \/ usb' = [NoUsb EXCEPT !.failed = "alloc"] /\ pc' = "sleep"
    /\ UNCHANGED <<cache, disk, io, nsp_list, fr, device>>

\* libusb_init(&ctx->ctx)
usb_init_lib ==
    /\ pc = "usb_libinit"
    /\ \/ usb' = [usb EXCEPT !.lib = "init"] /\ pc' = "usb_open"
       \/ usb' = [usb EXCEPT !.ctx = "freed", !.failed = "libusb_init"] /\ pc' = "sleep"
    /\ UNCHANGED <<cache, disk, io, nsp_list, fr, device>>

\* libusb_open_device_with_vid_pid; then reset and detach the kernel driver
usb_init_open ==
    /\ pc = "usb_open"
    /\ IF device = "absent"
       THEN /\ usb' = [usb EXCEPT !.lib = "exited", !.ctx = "freed", !.failed = "open"]
            /\ pc' = "sleep"
       ELSE /\ usb' = [usb EXCEPT !.dev_handle = "open"]
            /\ pc' = "usb_claim"
    /\ UNCHANGED <<cache, disk, io, nsp_list, fr, device>>

\* libusb_claim_interface(ctx->dev_handle, 0)
usb_init_claim ==
    /\ pc = "usb_claim"
    /\ IF device = "busy"
       THEN /\ usb' = [usb EXCEPT !.dev_handle = "closed", !.lib = "exited",
                                  !.ctx = "freed", !.failed = "claim"]
            /\ pc' = "sleep"
       ELSE /\ usb' = [usb EXCEPT !.iface = "claimed"]
            /\ pc' = "usb_config"
    /\ UNCHANGED <<cache, disk, io, nsp_list, fr, device>>

\* libusb_get_active_config_descriptor(..., &config): its result is not looked
\* at.  When it fails config is left as it was, uninitialised, and the reads
\* through it are undefined: the process dies, or finds some endpoint table.
usb_init_config ==
    /\ pc = "usb_config"
    /\ \/ /\ usb' = [usb EXCEPT !.config = "held", !.endpoints = Endpoints(device)]
          /\ pc' = "usb_endpoints"
       \/ /\ \E eps \in UndefEndpoints :
               usb' = [usb EXCEPT !.config = "indeterminate", !.endpoints = eps,
                                  !.failed = "config"]
          /\ pc' \in {"usb_endpoints", "crashed"}
    /\ UNCHANGED <<cache, disk, io, nsp_list, fr, device>>

\* the endpoint loop, libusb_free_config_descriptor(config) and the test of
\* ep_in and ep_out; freeing an indeterminate pointer may end the process
usb_init_endpoints ==
    /\ pc = "usb_endpoints"
    /\ LET u == [EndpointScan(usb.endpoints, 1, [usb EXCEPT !.ep_in = 0, !.ep_out = 0])
                   EXCEPT !.config = "freed", !.endpoints = <<>>]
       IN  \/ /\ usb.config = "indeterminate"
              /\ usb' = usb
              /\ pc' = "crashed"
           \/ IF u.ep_in = 0 \/ u.ep_out = 0
              THEN /\ usb' = [u EXCEPT !.iface = "released", !.dev_handle = "closed",
                                       !.lib = "exited", !.ctx = "freed",
                                       !.failed = IF usb.failed = "none" THEN "endpoints"
                                                  ELSE usb.failed]
                   /\ pc' = "sleep"
              ELSE \* return ctx: connect_to_switch returns it and poll_commands begins
                   /\ usb' = u
                   /\ pc' = "await"
    /\ UNCHANGED <<cache, disk, io, nsp_list, fr, device>>

\* LOG_INFO("Waiting for switch"); sleep(1); the next pass of while (true)
connect_sleep ==
    /\ pc = "sleep"
    /\ pc' = "connect"
    /\ UNCHANGED <<cache, disk, io, nsp_list, fr, usb, device>>

\* the console is attached, detached or taken while the host sleeps
device_change ==
    /\ pc = "sleep"
    /\ \E d \in DeviceStates : d # device /\ device' = d
    /\ UNCHANGED <<pc, cache, disk, io, nsp_list, fr, usb>>

\* main after poll_commands has returned: usb_cleanup(ctx)
usb_cleanup ==
    /\ pc = "returned"
    /\ usb.ctx = "allocated"
    /\ usb' = [usb EXCEPT !.iface = IF usb.dev_handle = "open" THEN "released" ELSE usb.iface,
                          !.dev_handle = IF usb.dev_handle = "open" THEN "closed"
                                         ELSE usb.dev_handle,
                          !.lib = IF usb.lib = "init" THEN "exited" ELSE usb.lib,
                          !.ctx = "freed"]
    /\ UNCHANGED <<pc, cache, disk, io, nsp_list, fr, device>>

(***************************************************************************)
(* poll_commands: one pass of the while loop up to the handler's first     *)
(* transport operation.                                                    *)
(***************************************************************************)
\* usb_read failed, or returned fewer than 16 bytes: continue
poll_short_read ==
    /\ pc = "await"
    /\ \E ret \in {LIBUSB_ERROR, 0, HEADER_SIZE - 1} :
         io' = << usb_read(HEADER_SIZE, ret,
                           IF ret < 0 THEN <<>>
                           ELSE SubSeq(HeaderBytes(CMD_TYPE_REQUEST, CMD_LIST, 0), 1, ret)) >>
    /\ pc' = "continue"
    /\ UNCHANGED <<cache, disk, nsp_list, fr, usb, device>>

\* a switch that still serves the deprecated list command
Dispatch_legacy_list(cmd_id) ==
    IF cmd_id = CMD_EXIT THEN "exit_write"
    ELSE IF cmd_id = CMD_LIST \/ cmd_id = CMD_LIST_DEPRECATED THEN "list_malloc"
    ELSE IF cmd_id = CMD_FILE_RANGE THEN "fr_ack"
    ELSE "exit_write"

\* where the switch on cmd_id goes: the position of the handler's first step
Dispatch(cmd_id) ==
    IF cmd_id = CMD_EXIT THEN "exit_write"
    ELSE IF cmd_id = CMD_LIST THEN "list_malloc"
    ELSE IF cmd_id = CMD_FILE_RANGE THEN "fr_ack"
    ELSE "exit_write"

\* a List that walks the tree without resetting count first
poll_commands_no_reset ==
    /\ pc = "await"
    /\ \E h \in InHeaders :
         /\ io' = << usb_read(HEADER_SIZE, HEADER_SIZE, h) >>
         /\ IF ~HasMagic(h)
            THEN /\ pc' = "continue"
                 /\ UNCHANGED <<cache, fr>>
            ELSE /\ pc' = Dispatch(CmdId(h))
                 \* process_list_command: cache->count = 0; scan_directory(work_dir, cache)
                 /\ cache' = IF pc' = "list_malloc"
                             THEN ScanDirectory(Tree(disk), work_dir, cache)
                             ELSE cache
                 /\ fr' = IF pc' = "fr_ack"
                          THEN [NoFileRange EXCEPT !.data_size = DataSize(h)]
                          ELSE NoFileRange
    /\ UNCHANGED <<disk, nsp_list, usb, device>>

\* usb_read returned 16 bytes
poll_commands ==
    /\ pc = "await"
    /\ \E h \in InHeaders :
         /\ io' = << usb_read(HEADER_SIZE, HEADER_SIZE, h) >>
         /\ IF ~HasMagic(h)
            THEN /\ pc' = "continue"
                 /\ UNCHANGED <<cache, fr>>
            ELSE /\ pc' = Dispatch(CmdId(h))
                 \* process_list_command: cache->count = 0; scan_directory(work_dir, cache)
                 /\ cache' = IF pc' = "list_malloc"
                             THEN ScanDirectory(Tree(disk), work_dir, <<>>)
                             ELSE cache
                 /\ fr' = IF pc' = "fr_ack"
                          THEN [NoFileRange EXCEPT !.data_size = DataSize(h)]
                          ELSE NoFileRange
    /\ UNCHANGED <<disk, nsp_list, usb, device>>

\* continue, or the break after a handler's return: back to the head of the loop,
\* where the handler's locals and the record of its transfers are gone
poll_loop ==
    /\ pc \in {"continue", "break"}
    /\ pc' = "await"
    /\ io' = <<>>
    /\ nsp_list' = NoList
    /\ fr' = NoFileRange
    /\ UNCHANGED <<cache, disk, usb, device>>

\* an exit handler followed by break instead of return
process_exit_command_break ==
    /\ pc = "exit_write"
    /\ \E ok \in BOOLEAN : io' = Append(io, usb_write(ExitResponse, HEADER_SIZE, ok))
    /\ pc' = "break"
    /\ UNCHANGED <<cache, disk, nsp_list, fr, usb, device>>

\* process_exit_command; return
process_exit_command ==
    /\ pc = "exit_write"
    /\ \E ok \in BOOLEAN : io' = Append(io, usb_write(ExitResponse, HEADER_SIZE, ok))
    /\ pc' = "returned"
    /\ UNCHANGED <<cache, disk, nsp_list, fr, usb, device>>

\* the directory tree changes while the loop waits for a command
fs_change ==
    /\ pc = "await"
    /\ \E d \in 1..Len(Disks) : d # disk /\ disk' = d
    /\ UNCHANGED <<pc, cache, io, nsp_list, fr, usb, device>>

(***************************************************************************)
(* process_list_command                                                    *)
(***************************************************************************)
\* a loop that puts each name in front of the list
RECURSIVE ListConcat_prepend(_, _, _)
ListConcat_prepend(c, lo, hi) ==
    IF lo > hi THEN <<>>
    ELSE IF lo = hi THEN (c[lo].display_name \o <<10>>)
    ELSE LET mid == (lo + hi) \div 2 IN
         ListConcat_prepend(c, mid + 1, hi) \o ListConcat_prepend(c, lo, mid)

\* for (i = lo - 1; i < hi; i++) { strcat(nsp_list, display_name); strcat(nsp_list, "\n"); }
\* The loop over lo..hi is the loop over lo..mid followed by the loop over mid+1..hi.
RECURSIVE ListConcat(_, _, _)
ListConcat(c, lo, hi) ==
    IF lo > hi THEN <<>>
    ELSE IF lo = hi THEN (c[lo].display_name \o <<10>>)
    ELSE LET mid == (lo + hi) \div 2 IN ListConcat(c, lo, mid) \o ListConcat(c, mid + 1, hi)

\* nsp_list = malloc(MAX_TITLES * 256); nsp_list[0] = '\0'; the strcat loop
\* MAX_TITLES * 256, the size of process_list_command's buffer
LIST_BUFFER_SIZE == MAX_TITLES * 256

\* How the strcat loop ends with the string buf: a string that does not fit
\* the buffer with its terminator was written past the end of the allocation,
\* after which the process carries on or dies.
StrcatOutcomes(buf) ==
    IF Len(buf) + 1 <= LIST_BUFFER_SIZE THEN {"list_hdr"} ELSE {"list_hdr", "crashed"}

list_malloc ==
    /\ pc = "list_malloc"
    /\ \/ /\ nsp_list' = ListConcat(cache, 1, Len(cache))
          /\ pc' \in StrcatOutcomes(nsp_list')
       \/ pc' = "break" /\ UNCHANGED nsp_list      \* malloc returned NULL
    /\ UNCHANGED <<cache, disk, io, fr, usb, device>>

\* list_len = strlen(nsp_list)
ListLen(buf) == Len(buf)

\* the List/Response header carrying list_len
list_write_header ==
    /\ pc = "list_hdr"
    /\ \E ok \in BOOLEAN :
         io' = Append(io, usb_write(ListResponse(ListLen(nsp_list)), HEADER_SIZE, ok))
    /\ pc' = "list_ack"
    /\ UNCHANGED <<cache, disk, nsp_list, fr, usb, device>>

\* what a read the handlers do not check may return: an error, or all of it
ReadResults(size) == {LIBUSB_ERROR, size}

\* usb_read(ctx, ack, 16, USB_TIMEOUT): the result and the bytes are only logged
list_read_ack ==
    /\ pc = "list_ack"
    /\ \E ret \in ReadResults(HEADER_SIZE) :
         io' = Append(io, usb_read(HEADER_SIZE, ret, <<>>))
    /\ pc' = "list_payload"
    /\ UNCHANGED <<cache, disk, nsp_list, fr, usb, device>>

\* usb_write(ctx, nsp_list, list_len, USB_TIMEOUT); free(nsp_list)
list_write_payload ==
    /\ pc = "list_payload"
    /\ LET list_len == ListLen(nsp_list) IN
       \E ok \in BOOLEAN :
         io' = Append(io, usb_write(SubSeq(nsp_list, 1, list_len), list_len, ok))
    /\ pc' = "break"
    /\ UNCHANGED <<cache, disk, nsp_list, fr, usb, device>>

(***************************************************************************)
(* process_file_range_command                                              *)
(***************************************************************************)
\* the Ack header echoing data_size
fr_write_ack ==
    /\ pc = "fr_ack"
    /\ \E ok \in BOOLEAN :
         io' = Append(io, usb_write(FileRangeAck(fr.data_size), HEADER_SIZE, ok))
    /\ pc' = "fr_malloc"
    /\ UNCHANGED <<cache, disk, nsp_list, fr, usb, device>>

\* file_range_header = malloc(data_size)
fr_malloc ==
    /\ pc = "fr_malloc"
    /\ \/ pc' = "fr_read"
       \/ pc' = "break"          \* malloc returned NULL
    /\ UNCHANGED <<cache, disk, io, nsp_list, fr, usb, device>>

\* The fields parsed from the buffer of data_size bytes of which the bytes
\* `got` were received.  A field that does not lie inside the received bytes
\* is indeterminate (uninitialised heap, or beyond the allocation).
RangeSizes(got) == IF Len(got) >= 4 THEN { U32At(got, 0) } ELSE UndefU32
RangeOffsets(got) == IF Len(got) >= 12 THEN { U64At(got, 4) } ELSE UndefU32
\* nsp_name_len is only logged: an indeterminate one is not told apart further
\* and stands as -1, which no uint32_t is
NameLen(got) == IF Len(got) >= 16 THEN U32At(got, 12) ELSE -1

\* strncpy(nsp_name, file_range_header + 16, MAX_PATH_LEN - 1); nsp_name[MAX_PATH_LEN - 1] = 0
NspNames(got) ==
    LET nul == NulFrom(got, HEADER_SIZE + 1) IN
    IF nul # 0
    THEN { StrNCpy(SubSeq(got, HEADER_SIZE + 1, nul - 1), MAX_PATH_LEN - 1) }
    ELSE { StrNCpy(SubSeq(got, HEADER_SIZE + 1, Len(got)) \o tail, MAX_PATH_LEN - 1) :
             tail \in UndefTails }

\* the bytes usb_read may leave in the buffer when the peer sends payload p:
\* the part of p that fits, or nothing (the transfer failed)
Received(p, data_size) == { SubSeq(p, 1, Min(Len(p), data_size)), <<>> }

\* usb_read(ctx, file_range_header, data_size, USB_TIMEOUT), the parse and the lookup
fr_read_request ==
    /\ pc = "fr_read"
    /\ \E p \in PeerPayloads :
         /\ \/ Len(p) = fr.data_size
            \/ fr.data_size \in ShortSizes /\ p = ShortPayload
         /\ \E got \in Received(p, fr.data_size) :
              /\ io' = Append(io, usb_read(fr.data_size,
                                           IF got = <<>> /\ fr.data_size > 0
                                           THEN LIBUSB_ERROR ELSE Len(got), got))
              /\ \E rs \in RangeSizes(got), ro \in RangeOffsets(got), nm \in NspNames(got) :
                   fr' = [fr EXCEPT !.got = got, !.range_size = rs, !.range_offset = ro,
                                    !.nsp_name_len = NameLen(got), !.nsp_name = nm,
                                    !.actual_path = find_title_path(cache, nm)]
    /\ pc' = "fr_resp"
    /\ UNCHANGED <<cache, disk, nsp_list, usb, device>>

\* the FileRange/Response header carrying range_size
fr_write_response ==
    /\ pc = "fr_resp"
    /\ \E ok \in BOOLEAN :
         io' = Append(io, usb_write(FileRangeResponse(fr.range_size), HEADER_SIZE, ok))
    /\ pc' = "fr_readack"
    /\ UNCHANGED <<cache, disk, nsp_list, fr, usb, device>>

\* usb_read(ctx, ack, 16, USB_TIMEOUT): the result and the bytes are only logged
fr_read_ack ==
    /\ pc = "fr_readack"
    /\ \E ret \in ReadResults(HEADER_SIZE) :
         io' = Append(io, usb_read(HEADER_SIZE, ret, <<>>))
    /\ pc' = "fr_open"
    /\ UNCHANGED <<cache, disk, nsp_list, fr, usb, device>>

\* a handler for which a file that cannot be opened ends the session
fr_open_fatal ==
    /\ pc = "fr_open"
    /\ LET e == Lookup(Tree(disk), fr.actual_path) IN
       IF e.kind # "reg"
       THEN /\ pc' = "exit_write"
            /\ UNCHANGED fr
       ELSE /\ pc' = "fr_loop"
            /\ fr' = [fr EXCEPT !.f = "open", !.file_len = e.size,
                                !.file_pos = fr.range_offset, !.buffer = "allocated",
                                !.curr_off = 0, !.end_off = fr.range_size,
                                !.read_size = BUFFER_SEGMENT_DATA_SIZE]
    /\ UNCHANGED <<cache, disk, io, nsp_list, usb, device>>

\* fopen(actual_path, "rb"); fseek(f, range_offset, SEEK_SET); buffer = malloc(...)
fr_open ==
    /\ pc = "fr_open"
    /\ LET e == Lookup(Tree(disk), fr.actual_path) IN
       IF e.kind # "reg"
       THEN \* fopen returned NULL
            /\ pc' = "break"
            /\ UNCHANGED fr
       ELSE \/ /\ pc' = "fr_loop"
               /\ fr' = [fr EXCEPT !.f = "open", !.file_len = e.size,
                                   !.file_pos = fr.range_offset, !.buffer = "allocated",
                                   !.curr_off = 0, !.end_off = fr.range_size,
                                   !.read_size = BUFFER_SEGMENT_DATA_SIZE]
            \/ \* malloc returned NULL: fclose, return
               /\ pc' = "break"
               /\ fr' = [fr EXCEPT !.f = "closed", !.file_len = e.size,
                                   !.file_pos = fr.range_offset]
    /\ UNCHANGED <<cache, disk, io, nsp_list, usb, device>>

\* a loop body that never clips
ClipReadSize_noclip(curr_off, read_size, end_off) == read_size

\* read_size after the clip at the head of the loop body
ClipReadSize(curr_off, read_size, end_off) ==
    IF curr_off + read_size >= end_off THEN end_off - curr_off ELSE read_size

\* fread(buffer, 1, read_size, f) at position file_pos of a file of file_len bytes
FRead(read_size, file_pos, file_len) ==
    IF file_pos >= file_len THEN 0 ELSE Min(read_size, file_len - file_pos)

\* a loop that runs once more
LoopCond_le(curr_off, end_off) == curr_off <= end_off

\* while (curr_off < end_off)
LoopCond(curr_off, end_off) == curr_off < end_off

\* a loop that returns on a short read, past the fclose
fr_stream_chunk_leak ==
    /\ pc = "fr_loop"
    /\ LoopCond(fr.curr_off, fr.end_off)
    /\ LET read_size == ClipReadSize(fr.curr_off, fr.read_size, fr.end_off)
           bytes_read == FRead(read_size, fr.file_pos, fr.file_len)
       IN  IF bytes_read # read_size
           THEN \* break; free(buffer); fclose(f)
                /\ pc' = "break"
                /\ fr' = [fr EXCEPT !.read_size = read_size,
                                    !.file_pos = fr.file_pos + bytes_read]
                /\ UNCHANGED io
           ELSE /\ \E ok \in BOOLEAN :
                     io' = Append(io, usb_write_chunk(fr.actual_path, fr.file_pos,
                                                      read_size, ok))
                /\ fr' = [fr EXCEPT !.read_size = read_size,
                                    !.curr_off = fr.curr_off + read_size,
                                    !.file_pos = fr.file_pos + read_size]
                /\ UNCHANGED pc
    /\ UNCHANGED <<cache, disk, nsp_list, usb, device>>

\* one pass of the while loop: clip, fread, usb_write, advance
fr_stream_chunk ==
    /\ pc = "fr_loop"
    /\ LoopCond(fr.curr_off, fr.end_off)
    /\ LET read_size == ClipReadSize(fr.curr_off, fr.read_size, fr.end_off)
           bytes_read == FRead(read_size, fr.file_pos, fr.file_len)
       IN  IF bytes_read # read_size
           THEN \* break; free(buffer); fclose(f)
                /\ pc' = "break"
                /\ fr' = [fr EXCEPT !.read_size = read_size, !.f = "closed",
                                    !.buffer = "freed",
                                    !.file_pos = fr.file_pos + bytes_read]
                /\ UNCHANGED io
           ELSE /\ \E ok \in BOOLEAN :
                     io' = Append(io, usb_write_chunk(fr.actual_path, fr.file_pos,
                                                      read_size, ok))
                /\ fr' = [fr EXCEPT !.read_size = read_size,
                                    !.curr_off = fr.curr_off + read_size,
                                    !.file_pos = fr.file_pos + read_size]
                /\ UNCHANGED pc
    /\ UNCHANGED <<cache, disk, nsp_list, usb, device>>

\* the loop is over: free(buffer); fclose(f)
fr_stream_done ==
    /\ pc = "fr_loop"
    /\ ~LoopCond(fr.curr_off, fr.end_off)
    /\ pc' = "break"
    /\ fr' = [fr EXCEPT !.f = "closed", !.buffer = "freed"]
    /\ UNCHANGED <<cache, disk, io, nsp_list, usb, device>>

(***************************************************************************)
(* The program                                                             *)
(***************************************************************************)
Next ==
    \/ poll_short_read
    \/ poll_commands
    \/ poll_loop
    \/ process_exit_command
    \/ fs_change
    \/ list_malloc
    \/ list_write_header
    \/ list_read_ack
    \/ list_write_payload
    \/ fr_write_ack
    \/ fr_malloc
    \/ fr_read_request
    \/ fr_write_response
    \/ fr_read_ack
    \/ fr_open
    \/ fr_stream_chunk
    \/ fr_stream_done
    \/ usb_cleanup

Spec == Init /\ [][Next]_vars

\* The List command alone, served from the trees of long names
ListInit ==
    /\ pc = "await"
    /\ cache = <<>>
    /\ disk \in (Len(Disks) + 1)..(Len(Disks) + Len(LongDisks))
    /\ io = <<>>
    /\ nsp_list = NoList
    /\ fr = NoFileRange
    /\ usb = OpenedUsb
    /\ device = "ready"

\* a header that process_list_command serves
poll_list == poll_commands /\ pc' = "list_malloc"

ListNext ==
    \/ poll_list
    \/ list_malloc
    \/ list_write_header
    \/ list_read_ack
    \/ list_write_payload
    \/ poll_loop

ListSpec == ListInit /\ [][ListNext]_vars

\* main from connect_to_switch on
MainNext ==
    \/ usb_init_alloc
    \/ usb_init_lib
    \/ usb_init_open
    \/ usb_init_claim
    \/ usb_init_config
    \/ usb_init_endpoints
    \/ connect_sleep
    \/ device_change
    \/ Next

MainSpec == MainInit /\ [][MainNext]_vars

\* The program has one thread, which runs on while it has a step to take.
FairSpec == Spec /\ WF_vars(Next)

(***************************************************************************)
(* Properties                                                              *)
(***************************************************************************)
\* the bytes "DBI0" and the Exit/Response header with payload_length 0
DBI0 == <<68, 66, 73, 48>>
ExitAckBytes == <<68, 66, 73, 48, 1, 0, 0, 0, 0, 0, 0, 0, 0, 0, 0, 0>>

\* the command being served began with a full header of valid magic
GotHeader ==
    /\ io # <<>>
    /\ io[1].op = "read"
    /\ io[1].ret = 16
    /\ Len(io[1].data) = 16
    /\ SubSeq(io[1].data, 1, 4) = DBI0

HdrType == U32At(io[1].data, 4)
HdrId == U32At(io[1].data, 8)
HdrLen == U32At(io[1].data, 12)

IsExitAckWrite(r) == r.op = "write" /\ r.size = 16 /\ r.data = ExitAckBytes /\ r.path = <<>>

\* C1: an Exit command (valid magic, id 0) read by the session loop, after any
\* earlier commands, is answered by exactly one write, the Exit/Response header
\* with payload_length 0; then poll_commands has returned, and from there no
\* transport operation and no other step follows.
C1_ExitTerminates ==
    /\ []((GotHeader /\ HdrId = 0) =>
            /\ pc \in {"exit_write", "returned"}
            /\ pc = "exit_write" => Len(io) = 1
            /\ pc = "returned" => (Len(io) = 2 /\ IsExitAckWrite(io[2])))
    /\ [][pc = "returned" => (pc' = "returned" /\ io' = io)]_vars

C1_Witness ==
    /\ pc = "returned"
    /\ GotHeader /\ HdrId = 0
    /\ Len(cache) = 2

\* C2: a header of valid magic whose id is none of Exit (0), FileRange (2) and
\* List (3), ListLegacy (1) included, is answered by one Exit/Response header
\* with payload_length 0 and ends the loop: no handler runs, and the loop never
\* goes back to wait for a header.
C2_UnknownIdTerminates ==
    /\ []((GotHeader /\ HdrId \notin {0, 2, 3}) =>
            /\ pc \in {"exit_write", "returned"}
            /\ pc = "exit_write" => Len(io) = 1
            /\ pc = "returned" => (Len(io) = 2 /\ IsExitAckWrite(io[2])))
    /\ [][(GotHeader /\ HdrId \notin {0, 2, 3}) =>
            (pc' \in {"exit_write", "returned"} /\ io'[1] = io[1] /\ cache' = cache)]_vars

C2_Witness ==
    /\ pc = "returned"
    /\ GotHeader /\ HdrId = 1
    /\ Len(io) = 2

\* a header read the loop must drop: an error or fewer than 16 bytes, or 16
\* bytes that do not begin with "DBI0"
Dropped(r) ==
    /\ r.op = "read"
    /\ \/ r.ret < 16
       \/ Len(r.data) < 4
       \/ SubSeq(r.data, 1, 4) # DBI0

\* C3: a header read that returns fewer than 16 bytes, or 16 bytes without the
\* magic, is dropped: the loop continues to the next header read with no
\* handler run, nothing written to the transport and the catalog unchanged.
C3_DroppedFrame ==
    /\ [][(pc = "await" /\ io' # <<>> /\ Dropped(io'[1])) =>
            /\ pc' = "continue"
            /\ Len(io') = 1
            /\ cache' = cache /\ nsp_list' = nsp_list /\ fr' = fr]_vars
    /\ [][pc = "continue" => (pc' = "await" /\ io' = <<>> /\ cache' = cache)]_vars

C3_Witness ==
    /\ pc = "continue"
    /\ io[1].ret = 16
    /\ SubSeq(io[1].data, 1, 3) = <<68, 66, 73>>
    /\ Len(cache) = 2

\* each display name followed by a newline, for the entries lo..hi of c
RECURSIVE JoinNames(_, _, _)
JoinNames(c, lo, hi) ==
    IF lo > hi THEN <<>>
    ELSE IF lo = hi THEN c[lo].display_name \o <<10>>
    ELSE LET mid == (lo + hi) \div 2 IN JoinNames(c, lo, mid) \o JoinNames(c, mid + 1, hi)

\* the catalog a scan of each of the trees has to give
ExpectedCatalog(d) ==
    IF d = 1 THEN <<>>
    ELSE IF d = 2 THEN
        << [display_name |-> <<100, 46, 78, 83, 90>>,
            full_path |-> <<116, 47, 115, 117, 98, 47, 100, 46, 78, 83, 90>>] >>
    ELSE IF d = 3 THEN
        << [display_name |-> <<97, 46, 110, 115, 112>>,
            full_path |-> <<116, 47, 97, 46, 110, 115, 112>>],
           [display_name |-> <<98, 46, 120, 99, 105>>,
            full_path |-> <<116, 47, 98, 46, 120, 99, 105>>] >>
    ELSE [i \in 1..1024 |->
            [display_name |-> NumName(i),
             full_path |-> IF i <= 512 THEN <<116, 47>> \o NumName(i)
                           ELSE <<116, 47, 115, 117, 98, 47>> \o NumName(i)]]

\* "a.nsp\nb.xci\n"
TwoNamesPayload == <<97, 46, 110, 115, 112, 10, 98, 46, 120, 99, 105, 10>>

IsHeaderWrite(r, type, id) ==
    /\ r.op = "write" /\ r.size = 16 /\ r.path = <<>>
    /\ Len(r.data) = 16
    /\ SubSeq(r.data, 1, 12) = DBI0 \o <<type, 0, 0, 0, id, 0, 0, 0>>

IsFileData(r) == r.op = "write" /\ r.path # <<>>

\* C4: in a List command the payload write hands the transport exactly as many
\* bytes as the payload_length of the List/Response header written before it
\* declares, for catalogs of 0 entries up to the capacity of 1024.
C4_ListLengthMatches ==
    (GotHeader /\ HdrId = 3 /\ Len(io) = 4) =>
        /\ IsHeaderWrite(io[2], 1, 3)
        /\ io[4].op = "write" /\ io[4].path = <<>>
        /\ io[4].size = U32At(io[2].data, 12)
        /\ Len(io[4].data) = io[4].size
        /\ Len(cache) <= 1024

C4_Witness ==
    /\ pc = "break"
    /\ GotHeader /\ HdrId = 3 /\ Len(io) = 4
    /\ Len(cache) = 1024
    /\ io[4].size = 9216

\* C5: the List handler rescans the catalog, then writes one List/Response
\* header, then reads one 16-byte acknowledgement, then writes the payload,
\* which is each entry's display name followed by a newline, in catalog order
\* (for "a.nsp", "b.xci": the 12 bytes "a.nsp\nb.xci\n").
C5_ListOrderAndPayload ==
    (GotHeader /\ HdrId = 3) =>
        /\ pc \in {"list_malloc", "list_hdr", "list_ack", "list_payload", "break"}
        /\ pc \in {"list_malloc", "list_hdr"} => Len(io) = 1
        /\ pc = "list_ack" => Len(io) = 2
        /\ pc = "list_payload" => Len(io) = 3
        /\ pc = "break" => Len(io) \in {1, 4}
        /\ Len(io) >= 2 => (IsHeaderWrite(io[2], 1, 3) /\ cache = ExpectedCatalog(disk))
        /\ Len(io) >= 3 => (io[3].op = "read" /\ io[3].size = 16)
        /\ Len(io) >= 4 =>
              /\ io[4].op = "write" /\ io[4].path = <<>>
              /\ io[4].data = JoinNames(cache, 1, Len(cache))
              /\ disk = 3 => (io[4].data = TwoNamesPayload /\ U32At(io[2].data, 12) = 12)

C5_Witness ==
    /\ pc = "break"
    /\ GotHeader /\ HdrId = 3 /\ Len(io) = 4
    /\ io[4].data = TwoNamesPayload

\* C6: the FileRange handler first writes an Ack header of id FileRange that
\* echoes the payload_length of the inbound command, only then reads the request
\* payload, then writes a FileRange/Response header whose payload_length is the
\* parsed range_size, then reads one acknowledgement header, and writes file
\* data only after that.
C6_FileRangePhases ==
    (GotHeader /\ HdrId = 2) =>
        /\ pc \in {"fr_ack", "fr_malloc", "fr_read", "fr_resp", "fr_readack", "fr_open",
                    "fr_loop", "break"}
        /\ pc = "fr_ack" => Len(io) = 1
        /\ pc \in {"fr_malloc", "fr_read"} => Len(io) = 2
        /\ pc = "fr_resp" => Len(io) = 3
        /\ pc = "fr_readack" => Len(io) = 4
        /\ pc \in {"fr_open", "fr_loop"} => Len(io) >= 5
        /\ pc = "break" => (Len(io) = 2 \/ Len(io) >= 5)
        /\ Len(io) >= 2 =>
              /\ IsHeaderWrite(io[2], 2, 2)
              /\ SubSeq(io[2].data, 13, 16) = SubSeq(io[1].data, 13, 16)
        /\ Len(io) >= 3 => (io[3].op = "read" /\ io[3].size = HdrLen)
        /\ Len(io) >= 4 =>
              /\ IsHeaderWrite(io[4], 1, 2)
              /\ U32At(io[4].data, 12) = fr.range_size
              /\ Len(io[3].data) >= 4 => SubSeq(io[4].data, 13, 16) = SubSeq(io[3].data, 1, 4)
        /\ Len(io) >= 5 => (io[5].op = "read" /\ io[5].size = 16)
        /\ \A i \in 1..Len(io) : IsFileData(io[i]) <=> i > 5

C6_Witness ==
    /\ pc = "fr_loop"
    /\ GotHeader /\ HdrId = 2
    /\ Len(io) = 7
    /\ HdrLen = 22

\* the request the FileRange handler parsed, as the peer laid it out
ReqSize == U32At(io[3].data, 0)
ReqOffset == U64At(io[3].data, 4)

\* the file the handler opens
ReqFile == Lookup(Tree(disk), fr.actual_path)

\* the number of file data chunks handed to the transport so far, and the k-th
NChunks == Len(io) - 5
Chunk(k) == io[5 + k]

RECURSIVE SumSizes(_, _)
SumSizes(t, from) == IF from > Len(t) THEN 0 ELSE t[from].size + SumSizes(t, from + 1)

\* the file data bytes handed to the transport so far
Delivered == SumSizes(io, 6)

\* C7: for a request of range_size S at range_offset O against a file of at
\* least O + S bytes, the chunks the handler hands to the transport are the
\* file's bytes from O on, one after the other: every chunk is at most
\* 0x100000 bytes, only the last may be shorter, the sizes never add up to more
\* than S, and add up to S when the handler returns; each pass of the loop
\* advances, and the loop ends.
C7_Chunks ==
    (/\ GotHeader /\ HdrId = 2
     /\ Len(io) >= 5 /\ Len(io[3].data) >= 16
     /\ fr.buffer # "none"
     /\ ReqFile.kind = "reg" /\ ReqFile.size >= ReqOffset + ReqSize) =>
        /\ \A k \in 1..NChunks :
              /\ IsFileData(Chunk(k))
              /\ Chunk(k).path = fr.actual_path
              /\ Chunk(k).off = ReqOffset + 1048576 * (k - 1)
              /\ Chunk(k).size >= 1 /\ Chunk(k).size <= 1048576
              /\ k < NChunks => Chunk(k).size = 1048576
        /\ Delivered <= ReqSize
        /\ pc = "break" => Delivered = ReqSize

C7_ChunkedRange ==
    /\ []C7_Chunks
    /\ [][(pc = "fr_loop" /\ pc' = "fr_loop") =>
            (fr'.curr_off > fr.curr_off /\ fr'.curr_off <= fr.end_off)]_vars
    /\ (pc = "fr_loop") ~> (pc = "break")

C7_Witness ==
    /\ pc = "break"
    /\ GotHeader /\ HdrId = 2
    /\ Len(io) = 8 /\ Len(io[3].data) >= 16
    /\ ReqSize = 2 * 1048576 + 5 /\ ReqOffset = 7
    /\ Chunk(3).size = 5 /\ Chunk(3).off = 7 + 2 * 1048576

\* C8: a request with range_size 0 is answered by a FileRange/Response header
\* with payload_length 0, and up to the handler's return no file data is
\* written: the acknowledgement read is the last transport operation.
C8_ZeroRange ==
    (/\ GotHeader /\ HdrId = 2
     /\ Len(io) >= 4 /\ Len(io[3].data) >= 4
     /\ ReqSize = 0) =>
        /\ IsHeaderWrite(io[4], 1, 2)
        /\ SubSeq(io[4].data, 13, 16) = <<0, 0, 0, 0>>
        /\ Len(io) <= 5
        /\ Len(io) = 5 => io[5].op = "read"
        /\ pc \in {"fr_readack", "fr_open", "fr_loop", "break"}

C8_Witness ==
    /\ pc = "break"
    /\ GotHeader /\ HdrId = 2
    /\ Len(io) = 5 /\ Len(io[3].data) >= 16
    /\ ReqSize = 0
    /\ fr.f = "closed" /\ fr.buffer = "freed"

\* the FileRange handler has returned early: the file could not be opened, or a
\* read from it came back short
OpenFailed == pc = "break" /\ Len(io) >= 5 /\ fr.f = "none"
ReadShort == pc = "break" /\ fr.buffer = "freed" /\ fr.curr_off < fr.end_off
Aborted == GotHeader /\ HdrId = 2 /\ (OpenFailed \/ ReadShort)

\* the range_size the FileRange/Response header declared
Declared == U32At(io[4].data, 12)

\* the request payload arrived whole, as long as the command header declared
WholeRequest == Len(io) >= 3 /\ HdrLen = 22 /\ Len(io[3].data) = 22

\* C9 as stated, for a request that arrived whole: an aborted FileRange request
\* has delivered fewer bytes than the range_size it declared.
C9_AbortDeliversFewer == (Aborted /\ WholeRequest) => Delivered < Declared

\* C9, amended: when the file cannot be opened or a read from it comes back
\* short, the handler returns at once: it has written only the full chunks read
\* before, never more than the declared range_size and fewer whenever the
\* declared range_size is not 0, it writes no header or message after the
\* acknowledgement read, and the loop goes on to wait for the next header with
\* the catalog as it was.
C9_AbortKeepsSession ==
    /\ [](Aborted =>
            /\ OpenFailed => Len(io) = 5
            /\ \A i \in 6..Len(io) : IsFileData(io[i]) /\ io[i].size = 1048576
            /\ Delivered <= Declared
            /\ Declared > 0 => Delivered < Declared)
    /\ [][(pc = "fr_open" /\ ReqFile.kind # "reg") => (pc' = "break" /\ io' = io)]_vars
    /\ [][(pc = "fr_loop" /\ pc' # "fr_loop") => (pc' = "break" /\ io' = io)]_vars
    /\ [][(pc = "break" /\ HdrId = 2) => (pc' = "await" /\ cache' = cache)]_vars

C9_Witness ==
    /\ Aborted /\ ReadShort
    /\ Len(io) = 6
    /\ Delivered = 1048576 /\ Declared = 1048576 + 5

\* C10 as stated: once a transport write of the List or FileRange handler has
\* failed, the handler performs no further transport operation.
C10_WriteFailureStops ==
    (GotHeader /\ HdrId \in {2, 3}) =>
        \A i \in 2..Len(io) : (io[i].op = "write" /\ io[i].ret < 0) => i = Len(io)

\* the header read of the session loop came back with a transport error
HeaderReadFailed == pc = "continue" /\ Len(io) = 1 /\ io[1].op = "read" /\ io[1].ret < 0

\* the session is released: interface, device handle, libusb context, UsbContext
Released ==
    /\ usb.ctx \in {"none", "freed"}
    /\ usb.lib \in {"none", "exited"}
    /\ usb.dev_handle \in {"none", "closed"}
    /\ usb.iface \in {"none", "released"}
    /\ usb.config \in {"none", "freed"}

\* the transport error is unrecoverable: from here on the loop only reads
\* headers, and every read fails
OnlyFailedReads == pc \in {"await", "continue"} /\ (pc = "continue" => HeaderReadFailed)

\* C11 as stated, for the unrecoverable error: when the header reads fail with
\* a transport error from some point on, the session loop eventually
\* terminates (poll_commands returns) and the transport session is released.
C11_ErrorEndsLoop ==
    (<>[]OnlyFailedReads /\ []<>HeaderReadFailed) => <>(pc = "returned" /\ Released)

\* a name that ends, whatever the case of its letters, in .nsp, .xci or .nsz
Fold(b) == IF b \in 65..90 THEN b + 32 ELSE b
EndsInTitleExt(name) ==
    /\ Len(name) >= 4
    /\ LET n == Len(name) IN
       /\ name[n - 3] = 46
       /\ <<Fold(name[n - 2]), Fold(name[n - 1]), Fold(name[n])>>
             \in { <<110, 115, 112>>, <<120, 99, 105>>, <<110, 115, 122>> }

\* the number of such regular files among the entries lo..hi of a directory
\* and in the directories below them
RECURSIVE CountTitles(_, _, _)
CountTitles(entries, lo, hi) ==
    IF lo > hi THEN 0
    ELSE IF lo = hi
    THEN LET e == entries[lo] IN
         IF e.name \in {Dot, DotDot} THEN 0
         ELSE IF e.kind = "dir" THEN CountTitles(e.entries, 1, Len(e.entries))
         ELSE IF e.kind = "reg" /\ EndsInTitleExt(e.name) THEN 1
         ELSE 0
    ELSE LET mid == (lo + hi) \div 2 IN
         CountTitles(entries, lo, mid) + CountTitles(entries, mid + 1, hi)

TitlesUnder(d) ==
    LET root == Lookup(Disks[d], <<116>>) IN
    IF root.kind = "dir" THEN CountTitles(root.entries, 1, Len(root.entries)) ELSE 0

\* C12: the catalog never holds more than 1024 entries, and when the List
\* handler has rescanned the tree it holds min(1024, number of regular files
\* under the titles directory whose name ends case-insensitively in .nsp, .xci
\* or .nsz) entries.
C12_CatalogSize ==
    /\ Len(cache) >= 0 /\ Len(cache) <= 1024
    /\ pc = "list_malloc" =>
         Len(cache) = (IF TitlesUnder(disk) < 1024 THEN TitlesUnder(disk) ELSE 1024)

\* a rescan of a tree with more matching files than the catalog holds, some of
\* them below a subdirectory
C12_Witness ==
    /\ pc = "list_malloc"
    /\ TitlesUnder(disk) = 1026
    /\ Len(cache) = 1024

\* the catalog entries whose display_name is exactly name
Matches(name) == { i \in 1..Len(cache) : cache[i].display_name = name }

\* the FileRange handler has just resolved the name of the request
Resolved == GotHeader /\ HdrId = 2 /\ pc = "fr_resp"

\* C13: the path the FileRange handler resolves a name to is the full_path of
\* a catalog entry whose display_name equals the name exactly; when no entry
\* matches it is the name itself, and resolving that again gives the name.
C13_Resolve ==
    Resolved =>
        /\ Matches(fr.nsp_name) # {} =>
              \E i \in Matches(fr.nsp_name) : fr.actual_path = cache[i].full_path
        /\ Matches(fr.nsp_name) = {} =>
              /\ fr.actual_path = fr.nsp_name
              /\ find_title_path(cache, fr.actual_path) = fr.nsp_name

\* "a.nsp" resolved to "t/a.nsp" through a catalog of two entries
C13_Witness ==
    /\ Resolved
    /\ Len(cache) = 2
    /\ fr.nsp_name = <<97, 46, 110, 115, 112>>
    /\ fr.actual_path = <<116, 47, 97, 46, 110, 115, 112>>

\* a name no entry has, handed back as it is
C13_WitnessUnresolved ==
    /\ Resolved
    /\ Len(cache) = 2
    /\ fr.nsp_name = <<120, 46, 110, 115, 112>>
    /\ fr.actual_path = fr.nsp_name

\* C14: a List command replaces the catalog by the entries of the tree as it is
\* at that moment, whatever the catalog held before, and no other step (no
\* other command, no change of the tree) changes the catalog.
C14_RebuiltOnList ==
    [][IF pc = "await" /\ pc' = "list_malloc"
       THEN cache' = ExpectedCatalog(disk)
       ELSE cache' = cache]_vars

\* a FileRange command served from the catalog of an earlier List while the
\* tree has changed since
C14_Witness ==
    /\ GotHeader /\ HdrId = 2 /\ pc = "fr_open"
    /\ disk = 2
    /\ cache = ExpectedCatalog(3)

\* C15: once a FileRange handler call has returned, and while the loop waits
\* for a header or has terminated, no file handle is open; the transport
\* session stays as usb_init opened it until poll_commands has returned, and
\* only the step after that releases it.
C15_HandleScopes ==
    /\ [](pc \in {"break", "continue", "await", "returned"} => fr.f # "open")
    /\ [](pc # "returned" =>
            /\ usb.ctx = "allocated" /\ usb.lib = "init"
            /\ usb.dev_handle = "open" /\ usb.iface = "claimed")
    /\ [][usb' # usb => (pc = "returned" /\ pc' = "returned" /\ Released')]_vars

\* a handler call that opened the file, sent one chunk, read short and returned
C15_Witness ==
    /\ GotHeader /\ HdrId = 2
    /\ pc = "break"
    /\ fr.f = "closed" /\ fr.buffer = "freed"
    /\ fr.curr_off > 0 /\ fr.curr_off < fr.end_off

\* usb_init is under way
InUsbInit == pc \in {"usb_libinit", "usb_open", "usb_claim", "usb_config", "usb_endpoints"}

\* C16 as stated: when a step of usb_init has failed (library init, device not
\* found, interface claim, endpoint discovery), the call ends having returned
\* no session (connect_to_switch sleeps or tries again) with everything the
\* attempt had acquired released.
C16_FailedOpenReleases ==
    (usb.failed # "none" /\ ~InUsbInit) => (pc \in {"sleep", "connect"} /\ Released)

\* connect_to_switch is under way: an attempt runs, or the host sleeps
InStartup == InUsbInit \/ pc \in {"connect", "sleep"}

\* C17 as stated, as far as a finite run shows it: start-up ends only by
\* entering the session loop, and the session connect_to_switch returns is
\* one that usb_init opened with every step succeeding; until then it tries
\* and sleeps.
C17_ConnectReturnsOpenSession ==
    ~InStartup => (pc # "crashed" /\ usb.failed = "none" /\ usb.ctx # "none")

\* C18 as stated: when the FileRange handler has parsed the request, the
\* three fixed fields (bytes 0..15) and the name with its terminator (from
\* byte 16 on) lie inside the buffer of payload_length bytes, in the part of
\* it that was filled from the peer.
C18_ParserInsideBuffer ==
    Resolved =>
        /\ fr.data_size >= 16
        /\ Len(fr.got) >= 16
        /\ Len(fr.got) <= fr.data_size
        /\ NulFrom(fr.got, 17) # 0
\* C19 as stated: for every catalog the List handler is entered with, the
\* newline-joined list that its strcat loop builds from the catalog, with the
\* terminating NUL, fits the buffer of MAX_TITLES * 256 bytes.
C19_ListFitsBuffer ==
    pc = "list_malloc" => Len(ListConcat(cache, 1, Len(cache))) + 1 <= MAX_TITLES * 256

\* the positions of the handler the switch enters for a command id, up to its
\* return to the loop
HandlerSteps(id) ==
    IF id = CMD_LIST THEN {"list_malloc", "list_hdr", "list_ack", "list_payload", "break"}
    ELSE IF id = CMD_FILE_RANGE
    THEN {"fr_ack", "fr_malloc", "fr_read", "fr_resp", "fr_readack", "fr_open", "fr_loop",
          "break"}
    ELSE {"exit_write", "returned"}

\* the k-th transfer after the header read, when the handler has got that far
Served(k, P(_)) == Len(io) > k => P(io[k + 1])

IsListHeaderWrite(r) ==
    r.op = "write" /\ r.size = 16 /\ r.data = HeaderBytes(1, 3, Len(nsp_list))
IsAckRead(r) == r.op = "read" /\ r.size = 16
IsListPayloadWrite(r) == r.op = "write" /\ r.size = Len(nsp_list) /\ r.data = nsp_list
IsRangeAckWrite(r) == r.op = "write" /\ r.size = 16 /\ r.data = HeaderBytes(2, 2, HdrLen)
IsRequestRead(r) == r.op = "read" /\ r.size = HdrLen
IsRangeHeaderWrite(r) ==
    r.op = "write" /\ r.size = 16 /\ r.data = HeaderBytes(1, 2, fr.range_size)
IsFileDataWrite(r) == r.op = "write" /\ r.path = fr.actual_path

\* C20: a header of valid magic whose type is Response or Ack is served by the
\* handler of its command id, whatever the type: anything but List and
\* FileRange by the exit handler's single write, List by the list header, the
\* acknowledgement read and the list, FileRange with the declared
\* payload_length by the Ack echoing it, the read of that many bytes, the
\* response header, the acknowledgement read and file data only.
C20_TypeBlind ==
    (GotHeader /\ HdrType \in {1, 2}) =>
        /\ pc \in HandlerSteps(HdrId)
        /\ HdrId \notin {2, 3} =>
             /\ Len(io) <= 2
             /\ Served(1, IsExitAckWrite)
             /\ pc = "returned" <=> Len(io) = 2
        /\ HdrId = 3 =>
             /\ Len(io) <= 4
             /\ Served(1, IsListHeaderWrite)
             /\ Served(2, IsAckRead)
             /\ Served(3, IsListPayloadWrite)
             /\ cache = ScanDirectory(Tree(disk), work_dir, <<>>)
        /\ HdrId = 2 =>
             /\ fr.data_size = HdrLen
             /\ Served(1, IsRangeAckWrite)
             /\ Served(2, IsRequestRead)
             /\ Served(3, IsRangeHeaderWrite)
             /\ Served(4, IsAckRead)
             /\ \A k \in 6..Len(io) : IsFileDataWrite(io[k])

\* an Ack-typed FileRange header that was served up to the file's data
C20_Witness ==
    /\ GotHeader
    /\ HdrType = 2
    /\ HdrId = 2
    /\ Len(io) >= 6
    /\ io[6].ret = io[6].size
    /\ fr.actual_path # <<>>

====
